---- MODULE Spec2Model ----
(***************************************************************************)
(* Model of src/main.py: the daily Ad Manager report job.                  *)
(*                                                                         *)
(*   get_report_data -> transform_report_data -> send_to_gs                *)
(*                                                                         *)
(* run by data_processing once per date, from the __main__ driver (daily   *)
(* or historical).                                                         *)
(*                                                                         *)
(* Text is modelled character by character: a Python str is a sequence of  *)
(* one-character strings, so that the regular expression, the split, the   *)
(* suffix tests and the comparisons are computed as the code computes      *)
(* them.  The two characters of the split literal at main.py:65, U+00C2    *)
(* and U+00BB, are written "C2" and "BB".                                  *)
(*                                                                         *)
(* Three specifications:                                                   *)
(*   Spec           the driver and the three stages of every date's run;   *)
(*   SpecTransform  transform_report_data applied to every bounded table;  *)
(*   SpecExtract    the label extraction of main.py:65-69 applied to every *)
(*                  bounded ad unit name.                                  *)
(***************************************************************************)
EXTENDS Integers, Sequences, FiniteSets, TLC

VARIABLES
    pc,             \* position of the main thread in the program
    historical,     \* main.py:138, the data ingestion option
    today,          \* date.today(), as a proleptic Gregorian ordinal
    i,              \* loop variable of the historical loop (main.py:158)
    date_,          \* the date under processing (main.py:126, 146, 161)
    report_job_id,  \* local of get_report_data (main.py:45)
    exception,      \* the exception that ended the program, "" if none
    tmp_files,      \* temporary files that exist on the local disk
    report_file,    \* the file handle get_report_data returns
    report,         \* rows of the CSV dump held by report_file
    df_report,      \* the data frame transform_report_data returns
    gcs,            \* objects uploaded to the bucket, oldest first
    console,        \* lines printed, oldest first
    trace,          \* stages that ran to completion, oldest first
    ad_unit,        \* SpecExtract: the Dimension.AD_UNIT_NAME under test
    labels          \* SpecExtract: the four labels extracted from ad_unit

vars == <<pc, historical, today, i, date_, report_job_id, exception, tmp_files, report_file,
          report, df_report, gcs, console, trace, ad_unit, labels>>

----------------------------------------------------------------------------
(* Characters and the regular expression of main.py:62                     *)

\* [a-zA-Z_.0-9]
LabelChars ==
    {"a", "b", "c", "d", "e", "f", "g", "h", "i", "j", "k", "l", "m",
     "n", "o", "p", "q", "r", "s", "t", "u", "v", "w", "x", "y", "z",
     "A", "B", "C", "D", "E", "F", "G", "H", "I", "J", "K", "L", "M",
     "N", "O", "P", "Q", "R", "S", "T", "U", "V", "W", "X", "Y", "Z"}
    \cup {"0", "1", "2", "3", "4", "5", "6", "7", "8", "9"} \cup {"_", "."}

\* [0-9]
Digits == {"0", "1", "2", "3", "4", "5", "6", "7", "8", "9"}

\* \s of a str pattern, restricted to the ASCII whitespace TLA+ can write
Whitespace == {" ", "\t", "\n", "\r", "\f"}

\* a missing value (pandas NaN) in a column of text
NaN == <<"NaN">>

\* first index >= k of s whose character is not in S (Len(s) + 1 if none):
\* where a greedy character-class repetition started at k stops
RECURSIVE RunEnd(_, _, _)
RunEnd(s, k, S) ==
    IF k <= Len(s) /\ s[k] \in S THEN RunEnd(s, k + 1, S) ELSE k

\* regex_pattern matched at position k of s.  The greedy runs never have to
\* give characters back: the character after the label must be whitespace and
\* the one after the digits ")", neither of which is in the repeated class.
MatchAt(s, k) ==
    LET e == RunEnd(s, k, LabelChars)
        d == RunEnd(s, e + 2, Digits)
    IN  /\ e > k
        /\ e + 1 <= Len(s)
        /\ s[e] \in Whitespace
        /\ s[e + 1] = "("
        /\ d > e + 2
        /\ d <= Len(s)
        /\ s[d] = ")"

\* group 1 of the first match found scanning from k (re.search), NaN if none
RECURSIVE SearchFrom(_, _)
SearchFrom(s, k) ==
    IF k > Len(s) THEN NaN
    ELSE IF MatchAt(s, k) THEN SubSeq(s, k, RunEnd(s, k, LabelChars) - 1)
    ELSE SearchFrom(s, k + 1)

\* Extract with re.match in place of re.search: the pattern is tried at the
\* first character only
Extract_match(s) ==
    IF s # NaN /\ MatchAt(s, 1) THEN SubSeq(s, 1, RunEnd(s, 1, LabelChars) - 1) ELSE NaN

\* Series.str.extract(regex_pattern) on one element
Extract(s) == IF s = NaN THEN NaN ELSE SearchFrom(s, 1)

\* the separator of main.py:65
Delimiter == <<"C2", "BB">>

IsAt(s, k, sep) ==
    k + Len(sep) - 1 <= Len(s) /\ SubSeq(s, k, k + Len(sep) - 1) = sep

\* str.split(sep): s[from..] is still to be scanned from k on
RECURSIVE SplitFrom(_, _, _, _)
SplitFrom(s, from, k, sep) ==
    IF k > Len(s) THEN <<SubSeq(s, from, Len(s))>>
    ELSE IF IsAt(s, k, sep)
         THEN <<SubSeq(s, from, k - 1)>>
              \o SplitFrom(s, k + Len(sep), k + Len(sep), sep)
         ELSE SplitFrom(s, from, k + 1, sep)

Split(s, sep) == SplitFrom(s, 1, 1, sep)

\* Series.str[k] on a list, k counted from 0; -1 is the last element
StrGet(l, k) ==
    IF k = -1 THEN l[Len(l)]
    ELSE IF k + 1 <= Len(l) THEN l[k + 1] ELSE NaN

\* main.py:65-69 for one row
ExtractLabels(name) ==
    LET AD_UNIT_ALL_LEVEL == Split(name, Delimiter)
    IN  [ad_unit_level_0 |-> Extract(StrGet(AD_UNIT_ALL_LEVEL, 0)),
         section         |-> Extract(StrGet(AD_UNIT_ALL_LEVEL, 1)),
         sub_section     |-> Extract(StrGet(AD_UNIT_ALL_LEVEL, 2)),
         ad_unit_name    |-> Extract(StrGet(AD_UNIT_ALL_LEVEL, -1))]

----------------------------------------------------------------------------
(* Dates: datetime.date values are <<year, month, day>>                    *)

\* main.py:154
from_date == <<2021, 7, 20>>

IsLeap(y) == (y % 4 = 0 /\ y % 100 # 0) \/ y % 400 = 0

DaysInMonth(y, m) ==
    IF m = 2 THEN (IF IsLeap(y) THEN 29 ELSE 28)
    ELSE IF m \in {4, 6, 9, 11} THEN 30 ELSE 31

\* d + timedelta(1)
NextDay(d) ==
    IF d[3] < DaysInMonth(d[1], d[2]) THEN <<d[1], d[2], d[3] + 1>>
    ELSE IF d[2] < 12 THEN <<d[1], d[2] + 1, 1>>
    ELSE <<d[1] + 1, 1, 1>>

\* d - timedelta(1)
PrevDay(d) ==
    IF d[3] > 1 THEN <<d[1], d[2], d[3] - 1>>
    ELSE IF d[2] > 1 THEN <<d[1], d[2] - 1, DaysInMonth(d[1], d[2] - 1)>>
    ELSE <<d[1] - 1, 12, 31>>

\* d + timedelta(k), k >= 0
RECURSIVE AddDays(_, _)
AddDays(d, k) == IF k = 0 THEN d ELSE AddDays(NextDay(d), k - 1)

DateLess(a, b) ==
    \/ a[1] < b[1]
    \/ a[1] = b[1] /\ a[2] < b[2]
    \/ a[1] = b[1] /\ a[2] = b[2] /\ a[3] < b[3]

\* (b - a).days for b no earlier than the day before a
RECURSIVE DaysBetween(_, _)
DaysBetween(a, b) ==
    IF a = b THEN 0
    ELSE IF DateLess(b, a) THEN -1
    ELSE 1 + DaysBetween(NextDay(a), b)

DigitChars == <<"0", "1", "2", "3", "4", "5", "6", "7", "8", "9">>

\* the decimal digits of v, zero padded to width w
RECURSIVE ZeroPad(_, _)
ZeroPad(v, w) ==
    IF w = 0 THEN <<>>
    ELSE ZeroPad(v \div 10, w - 1) \o <<DigitChars[(v % 10) + 1]>>

\* date.strftime('%Y-%m-%d')
StrfTime(d) == ZeroPad(d[1], 4) \o <<"-">> \o ZeroPad(d[2], 2) \o <<"-">> \o ZeroPad(d[3], 2)

DigitValue(c) == CHOOSE v \in 0..9 : DigitChars[v + 1] = c

\* int(text) for a text of decimal digits
RECURSIVE IntOf(_)
IntOf(t) ==
    IF t = <<>> THEN 0
    ELSE 10 * IntOf(SubSeq(t, 1, Len(t) - 1)) + DigitValue(t[Len(t)])

\* main.py:71, pd.to_datetime(text, format='%Y-%m-%d') on one element
ParseDate(t) == <<IntOf(SubSeq(t, 1, 4)), IntOf(SubSeq(t, 6, 7)), IntOf(SubSeq(t, 9, 10))>>

----------------------------------------------------------------------------
(* The ad unit names of the modelled report dumps                          *)

\* ad unit path segments as the report writes them: "<label> (<id>)"
Seg_web == <<"2", "0", "m", "i", "n", "u", "t", "e", "s", "_", "w", "e", "b", " ", "(", "1", ")">>
Seg_web_video_P2 == <<"2", "0", "m", "i", "n", "u", "t", "e", "s", "_", "w", "e", "b", "_", "v", "i", "d", "e", "o", "_", "P", "2", " ", "(", "2", ")">>
Seg_mobile == <<"2", "0", "m", "i", "n", "u", "t", "e", "s", "_", "m", "o", "b", "i", "l", "e", " ", "(", "3", ")">>
Seg_other == <<"2", "0", "m", "i", "n", "u", "t", "e", "s", "_", "o", "t", "h", "e", "r", " ", "(", "4", ")">>
Seg_tablet_no_id == <<"2", "0", "m", "i", "n", "u", "t", "e", "s", "_", "t", "a", "b", "l", "e", "t">>

\* the first segment of a path: the three platforms, another platform, and
\* a segment without the parenthesized id
Level0Segments == {Seg_web, Seg_web_video_P2, Seg_mobile, Seg_other, Seg_tablet_no_id}

Seg_amp == <<"a", "m", "p", " ", "(", "5", ")">>
Seg_News == <<"N", "e", "w", "s", " ", "(", "6", ")">>
Seg_News_no_id == <<"N", "e", "w", "s">>
Seg_Sport_art == <<"S", "p", "o", "r", "t", "_", "a", "r", "t", " ", "(", "7", ")">>
Seg_Photos_Diapo == <<"P", "h", "o", "t", "o", "s", "_", "D", "i", "a", "p", "o", " ", "(", "8", ")">>
Seg_Other == <<"O", "t", "h", "e", "r", " ", "(", "9", ")">>
Seg_leaf == <<"B", "a", "n", "n", "e", "r", ".", "t", "o", "p", " ", "(", "1", "0", ")">>

\* what follows the first segment of a path
PathTails ==
    {<<>>,
     <<Seg_amp>>,
     <<Seg_News>>,
     <<Seg_amp, Seg_Other>>,
     <<Seg_News, Seg_Sport_art>>,
     <<Seg_News, Seg_Photos_Diapo>>,
     <<Seg_News, Seg_Other>>,
     <<Seg_News_no_id, Seg_Sport_art>>,
     <<Seg_News, Seg_Photos_Diapo, Seg_leaf>>}

\* the tails of the names given to transform_report_data: the fourth and
\* later segments only reach the ad_unit_name column, which main.py:96-98 drops
TransformTails == PathTails \ {<<>>, <<Seg_News, Seg_Photos_Diapo, Seg_leaf>>}

\* the report writes a path as its segments joined by " <delimiter> "
Separator == <<" ">> \o Delimiter \o <<" ">>

RECURSIVE Join(_)
Join(path) ==
    IF Len(path) = 1 THEN path[1]
    ELSE path[1] \o Separator \o Join(Tail(path))

AdUnitNames == {Join(<<l>> \o t) : l \in Level0Segments, t \in PathTails}

TransformNames == {Join(<<l>> \o t) : l \in Level0Segments, t \in TransformTails}

\* ExtractLabels tabulated over AdUnitNames: the table is computed once,
\* where Normalize would compute the same labels again for every dump
LabelsOf == [name \in AdUnitNames |-> ExtractLabels(name)]


----------------------------------------------------------------------------
(* transform_report_data, main.py:54-101                                   *)

\* the string literals of main.py:75-93
Str_20minutes_web == <<"2", "0", "m", "i", "n", "u", "t", "e", "s", "_", "w", "e", "b">>
Str_20minutes_web_video_P2 == <<"2", "0", "m", "i", "n", "u", "t", "e", "s", "_", "w", "e", "b", "_", "v", "i", "d", "e", "o", "_", "P", "2">>
Str_20minutes_mobile == <<"2", "0", "m", "i", "n", "u", "t", "e", "s", "_", "m", "o", "b", "i", "l", "e">>
Str_Desktop == <<"D", "e", "s", "k", "t", "o", "p">>
Str_Mobile_Web == <<"M", "o", "b", "i", "l", "e", " ", "W", "e", "b">>
Str_Diapo == <<"_", "D", "i", "a", "p", "o">>
Str_art == <<"_", "a", "r", "t">>
Str_amp == <<"a", "m", "p">>

\* the characters of the model in increasing code point order: Python
\* compares str values code point by code point
CharOrder ==
    <<" ", "(", ")", "-", ".", "/", "0", "1", "2", "3", "4", "5", "6",
      "7", "8", "9", "A", "B", "C", "D", "E", "F", "G", "H", "I", "J",
      "K", "L", "M", "N", "O", "P", "Q", "R", "S", "T", "U", "V", "W",
      "X", "Y", "Z", "_", "a", "b", "c", "d", "e", "f", "g", "h", "i",
      "j", "k", "l", "m", "n", "o", "p", "q", "r", "s", "t", "u", "v",
      "w", "x", "y", "z",
      "BB", "C2">>

CodePointRank(c) == CHOOSE k \in 1..Len(CharOrder) : CharOrder[k] = c

\* a < b for str values (NaN never reaches a comparison: groupby drops it)
RECURSIVE TextLess(_, _)
TextLess(a, b) ==
    IF b = <<>> THEN FALSE
    ELSE IF a = <<>> THEN TRUE
    ELSE IF Head(a) = Head(b) THEN TextLess(Tail(a), Tail(b))
    ELSE CodePointRank(Head(a)) < CodePointRank(Head(b))

\* float(text) succeeds: digits, optionally followed by "." and one digit
\* (the texts the report dump is modelled to carry; amounts are held in tenths)
IsFloatText(t) ==
    LET p == RunEnd(t, 1, Digits)
    IN  /\ p > 1
        /\ \/ p = Len(t) + 1
           \/ p + 1 = Len(t) /\ t[p] = "." /\ t[p + 1] \in Digits

\* float(text), in tenths
FloatOf(t) ==
    LET p == RunEnd(t, 1, Digits)
    IN  IF p = Len(t) + 1 THEN 10 * IntOf(t)
        ELSE 10 * IntOf(SubSeq(t, 1, p - 1)) + DigitValue(t[p + 1])

\* ReplaceDeviceType with the 20minutes_web_video_P2 entry left out of the mapping
ReplaceDeviceType_no_video(v) ==
    IF v = Str_20minutes_web THEN Str_Desktop
    ELSE IF v = Str_20minutes_mobile THEN Str_Mobile_Web
    ELSE v

\* main.py:75-77, Series.replace with the mapping; any other value, NaN
\* included, is left as it is
ReplaceDeviceType(v) ==
    IF v = Str_20minutes_web THEN Str_Desktop
    ELSE IF v = Str_20minutes_web_video_P2 THEN Str_Desktop
    ELSE IF v = Str_20minutes_mobile THEN Str_Mobile_Web
    ELSE v

\* main.py:65-82 for one row of the dump
Normalize(r) ==
    LET l == IF r.AD_UNIT_NAME \in AdUnitNames THEN LabelsOf[r.AD_UNIT_NAME]
             ELSE ExtractLabels(r.AD_UNIT_NAME)
    IN  [date              |-> ParseDate(r.DATE),
         ad_unit_level_0   |-> l.ad_unit_level_0,
         device_type       |-> ReplaceDeviceType(l.ad_unit_level_0),
         section           |-> l.section,
         sub_section       |-> l.sub_section,
         ad_unit_name      |-> l.ad_unit_name,
         impressions       |-> r.IMPRESSIONS,
         revenue           |-> FloatOf(r.REVENUE),
         total_ad_requests |-> r.AD_REQUESTS]

\* Series == 'literal' on one element: False for NaN
StrEq(v, lit) == IF v # NaN /\ v = lit THEN "True" ELSE "False"

\* Series.str.endswith(suffix) on one element: NaN stays NaN
StrEndsWith(v, suffix) ==
    IF v = NaN THEN "NaN"
    ELSE IF Len(v) >= Len(suffix)
            /\ SubSeq(v, Len(v) - Len(suffix) + 1, Len(v)) = suffix
         THEN "True" ELSE "False"

\* pandas logical_op on one element of two object/bool columns: a NaN on the
\* right is filled with False, a NaN on the left yields the right operand,
\* and a NaN result is filled with False
LogicalOr(x, y) ==
    LET yf == IF y = "NaN" THEN "False" ELSE y
    IN  IF x = "NaN" THEN yf
        ELSE IF x = "True" \/ yf = "True" THEN "True" ELSE "False"

LogicalAnd(x, y) ==
    LET yf == IF y = "NaN" THEN "False" ELSE y
    IN  IF x = "NaN" THEN yf
        ELSE IF x = "True" /\ yf = "True" THEN "True" ELSE "False"

\* filter_1 testing only that the platform label is present
filter_1_any_platform(n) ==
    IF n.ad_unit_level_0 # NaN THEN "True" ELSE "False"

\* main.py:86-88
filter_1(n) ==
    LogicalOr(LogicalOr(StrEq(n.ad_unit_level_0, Str_20minutes_web),
                        StrEq(n.ad_unit_level_0, Str_20minutes_web_video_P2)),
              StrEq(n.ad_unit_level_0, Str_20minutes_mobile))

\* main.py:91-93
filter_2(n) ==
    LogicalOr(LogicalOr(StrEndsWith(n.sub_section, Str_Diapo),
                        StrEndsWith(n.sub_section, Str_art)),
              StrEq(n.section, Str_amp))

\* main.py:95, the boolean mask of df_report[filter_1 & filter_2]
Keep(n) == LogicalAnd(filter_1(n), filter_2(n)) = "True"

\* the grouping columns of main.py:99
GroupKey(n) == <<n.date, n.device_type, n.section, n.sub_section>>

\* groupby(...) leaves out every row with a missing value in a grouping
\* column (dropna=True, the default)
HasGroupKey(n) ==
    n.device_type # NaN /\ n.section # NaN /\ n.sub_section # NaN

KeyLess(a, b) ==
    \/ DateLess(a[1], b[1])
    \/ a[1] = b[1] /\ TextLess(a[2], b[2])
    \/ a[1] = b[1] /\ a[2] = b[2] /\ TextLess(a[3], b[3])
    \/ a[1] = b[1] /\ a[2] = b[2] /\ a[3] = b[3] /\ TextLess(a[4], b[4])

\* the keys of S in increasing order (groupby sorts the group keys)
RECURSIVE SortKeys(_)
SortKeys(S) ==
    IF S = {} THEN <<>>
    ELSE LET m == CHOOSE x \in S : \A y \in S \ {x} : KeyLess(x, y)
         IN  <<m>> \o SortKeys(S \ {m})

\* sum of column col over the rows of df whose grouping key is k
RECURSIVE GroupSum(_, _, _)
GroupSum(df, k, col) ==
    IF df = <<>> THEN 0
    ELSE (IF HasGroupKey(Head(df)) /\ GroupKey(Head(df)) = k
          THEN Head(df)[col] ELSE 0)
         + GroupSum(Tail(df), k, col)

\* GroupBySum without the groupby: the projection alone
GroupBySum_no_groupby(df) ==
    LET kept == SelectSeq(df, HasGroupKey)
    IN  [g \in 1..Len(kept) |->
            [date              |-> kept[g].date,
             device_type       |-> kept[g].device_type,
             section           |-> kept[g].section,
             sub_section       |-> kept[g].sub_section,
             impressions       |-> kept[g].impressions,
             revenue           |-> kept[g].revenue,
             total_ad_requests |-> kept[g].total_ad_requests]]

\* main.py:96-99: project, group by the four key columns, sum, reset_index
GroupBySum(df) ==
    LET keys == SortKeys({GroupKey(df[j]) : j \in {j \in 1..Len(df) : HasGroupKey(df[j])}})
    IN  [g \in 1..Len(keys) |->
            [date              |-> keys[g][1],
             device_type       |-> keys[g][2],
             section           |-> keys[g][3],
             sub_section       |-> keys[g][4],
             impressions       |-> GroupSum(df, keys[g], "impressions"),
             revenue           |-> GroupSum(df, keys[g], "revenue"),
             total_ad_requests |-> GroupSum(df, keys[g], "total_ad_requests")]]

\* main.py:74, astype(float) on the revenue column: one text that is not a
\* number raises ValueError for the whole column
RevenueIsNumeric(rows) == \A j \in 1..Len(rows) : IsFloatText(rows[j].REVENUE)

\* the data frame of main.py:65-82: one normalized row per row of the dump
NormalizeAll(rows) == [j \in 1..Len(rows) |-> Normalize(rows[j])]

\* transform_report_data(report_file): what it raises, and the rows of the
\* data frame it returns
transform_report_data(rows) ==
    IF ~RevenueIsNumeric(rows)
    THEN [raised |-> "ValueError", rows |-> <<>>]
    ELSE [raised |-> "",
          rows   |-> GroupBySum(SelectSeq(NormalizeAll(rows), Keep))]

----------------------------------------------------------------------------
(* send_to_gs, main.py:104-118 and 131                                     *)

Str_bucket == <<"s", "o", "l", "a", "r", ".", "2", "0", "m", "n", ".", "n", "e", "t">>
Str_blob_prefix == <<"i", "n", "t", "e", "r", "n", "a", "l", "/", "a", "p", "p", "l", "i", "c", "a", "t", "i", "o", "n", "s", "/", "s", "o", "l", "a", "r", "/", "g", "a", "m", "/">>
Str_name_prefix == <<"s", "o", "l", "a", "r", "_", "2", "0", "m", "n", "_", "a", "d", "s", ".", "g", "a", "m", "_", "r", "e", "v", "e", "n", "u", "e", "_", "p", "a", "g", "e", "_">>
Str_csv == <<".", "c", "s", "v">>

\* main.py:131: 'solar_20mn_ads.gam_revenue_page_' + date_.strftime('%Y-%m-%d' + '.csv')
name_file(d) == Str_name_prefix \o StrfTime(d) \o Str_csv

\* main.py:117-118: the object written by upload_from_file.  rows are the
\* rows of the data frame that to_csv writes below the header line.
Blob(df, name) ==
    [bucket       |-> Str_bucket,
     name         |-> Str_blob_prefix \o name,
     content_type |-> "text/csv",
     rows         |-> df.rows]

----------------------------------------------------------------------------
(* Bounds and the inputs the specifications range over                     *)

\* the historical range ends at most MaxDays days after from_date
MaxDays == 3

\* rows in a report dump given to transform_report_data
MaxRows == 2

\* characters in an ad unit name enumerated exhaustively for the extraction
MaxNameLen == 6

Rev_5_5 == <<"5", ".", "5">>
Rev_2_5 == <<"2", ".", "5">>
Rev_not_a_number == <<"n", "/", "a">>

\* the three metric columns of a row of the dump
Metrics ==
    {[IMPRESSIONS |-> 100, REVENUE |-> Rev_5_5, AD_REQUESTS |-> 120],
     [IMPRESSIONS |-> 40,  REVENUE |-> Rev_2_5, AD_REQUESTS |-> 50]}

DumpRow(d, name, m) ==
    [DATE        |-> StrfTime(d),
     AD_UNIT_NAME |-> name,
     IMPRESSIONS |-> m.IMPRESSIONS,
     REVENUE     |-> m.REVENUE,
     AD_REQUESTS |-> m.AD_REQUESTS]

Name_web_News_art == Join(<<Seg_web, Seg_News, Seg_Sport_art>>)
Name_mobile_amp == Join(<<Seg_mobile, Seg_amp>>)
Name_other_amp_Other == Join(<<Seg_other, Seg_amp, Seg_Other>>)

\* rows of the dump of the report for date d; the revenue of the last two is
\* not the text of a number
DumpRows(d) ==
    {DumpRow(d, name, m) : name \in TransformNames, m \in Metrics}
    \cup {DumpRow(d, name, [IMPRESSIONS |-> 7, REVENUE |-> Rev_not_a_number, AD_REQUESTS |-> 9]) :
            name \in {Name_web_News_art, Name_other_amp_Other}}

\* every dump of at most MaxRows rows
Dumps(d) == UNION {[1..k -> DumpRows(d)] : k \in 0..MaxRows}

\* the dumps the download of the driver's run chooses from
DriverDumps(d) ==
    LET m == [IMPRESSIONS |-> 100, REVENUE |-> Rev_5_5, AD_REQUESTS |-> 120]
        bad == [IMPRESSIONS |-> 7, REVENUE |-> Rev_not_a_number, AD_REQUESTS |-> 9]
    IN  {<<>>,
         <<DumpRow(d, Name_web_News_art, m)>>,
         <<DumpRow(d, Name_other_amp_Other, m)>>,
         <<DumpRow(d, Name_mobile_amp, m), DumpRow(d, Name_web_News_art, m)>>,
         <<DumpRow(d, Name_web_News_art, m), DumpRow(d, Name_web_News_art, bad)>>}

\* the characters of the exhaustively enumerated names: a label character,
\* a character outside the label class, whitespace, the parentheses, a digit
ExtractAlphabet == {"a", "-", " ", "(", "1", ")"}

ExtractNames ==
    UNION {[1..k -> ExtractAlphabet] : k \in 0..MaxNameLen} \cup AdUnitNames

----------------------------------------------------------------------------
(* The program                                                             *)

Unbound == <<>>
NoFile == 0
NoLabels == [ad_unit_level_0 |-> NaN, section |-> NaN, sub_section |-> NaN, ad_unit_name |-> NaN]
NoFrame == [raised |-> "", rows |-> <<>>]

\* main.py:155
to_date == PrevDay(today)

\* main.py:156
n == DaysBetween(from_date, to_date) + 1

\* the state after construction, common to the three specifications
Blank ==
    /\ i = 0
    /\ date_ = from_date
    /\ report_job_id = Unbound
    /\ exception = ""
    /\ tmp_files = {}
    /\ report_file = NoFile
    /\ df_report = NoFrame
    /\ gcs = <<>>
    /\ console = <<>>
    /\ trace = <<>>
    /\ labels = NoLabels

Init ==
    /\ Blank
    /\ pc = "main"
    /\ historical \in BOOLEAN
    /\ today \in {AddDays(from_date, k) : k \in 0..MaxDays}
    /\ report = <<>>
    /\ ad_unit = <<>>

\* main.py:138-157: authentificate, then take the daily or the historical branch
main ==
    /\ pc = "main"
    /\ console' = console \o <<<<"Authentification : Done">>, <<"Extraction">>>>
    /\ IF historical
       THEN pc' = "for" /\ i' = 0 /\ UNCHANGED date_
       ELSE pc' = "data_processing" /\ date_' = PrevDay(today) /\ UNCHANGED i
    /\ UNCHANGED <<historical, today, report_job_id, exception, tmp_files, report_file,
                   report, df_report, gcs, trace, ad_unit, labels>>

\* main.py:158-161: the next iteration of for i in range(n), or the end
for_loop ==
    /\ pc = "for"
    /\ IF i < n
       THEN pc' = "data_processing" /\ date_' = AddDays(from_date, i)
       ELSE pc' = "exit" /\ UNCHANGED date_
    /\ UNCHANGED <<historical, today, i, report_job_id, exception, tmp_files, report_file,
                   report, df_report, gcs, console, trace, ad_unit, labels>>

\* main.py:126-127, 29-45: data_processing calls get_report_data and
\* WaitForReport returns the id of the finished job
WaitForReport ==
    /\ pc = "data_processing"
    /\ report_job_id' = <<date_>>
    /\ trace' = Append(trace, <<"WaitForReport", date_>>)
    /\ pc' = "NamedTemporaryFile"
    /\ UNCHANGED <<historical, today, i, date_, exception, tmp_files, report_file,
                   report, df_report, gcs, console, ad_unit, labels>>

\* WaitForReportFails with a handler that binds the job reference to None
WaitForReportFails_binds_None ==
    /\ pc = "data_processing"
    /\ report_job_id' = <<"None">>
    /\ console' = Append(console, <<"Failed to generate report", date_>>)
    /\ pc' = "NamedTemporaryFile"
    /\ UNCHANGED <<historical, today, i, date_, exception, tmp_files, report_file,
                   report, df_report, gcs, trace, ad_unit, labels>>

\* main.py:44-47: WaitForReport raises AdManagerReportError; the handler
\* prints and falls through, report_job_id was never assigned
WaitForReportFails ==
    /\ pc = "data_processing"
    /\ report_job_id' = Unbound
    /\ console' = Append(console, <<"Failed to generate report", date_>>)
    /\ pc' = "NamedTemporaryFile"
    /\ UNCHANGED <<historical, today, i, date_, exception, tmp_files, report_file,
                   report, df_report, gcs, trace, ad_unit, labels>>

\* main.py:49: NamedTemporaryFile(delete=False) creates a new file
NamedTemporaryFile ==
    /\ pc = "NamedTemporaryFile"
    /\ LET f == Cardinality(tmp_files) + 1
       IN  tmp_files' = tmp_files \cup {f} /\ report_file' = f
    /\ pc' = "DownloadReportToFile"
    /\ UNCHANGED <<historical, today, i, date_, report_job_id, exception,
                   report, df_report, gcs, console, trace, ad_unit, labels>>

\* main.py:50-51: the argument report_job_id is read, the dump is written,
\* the with block closes the file (it stays on disk) and the handle is
\* returned.  Reading a local that was never assigned raises
\* UnboundLocalError before the call is made.
DownloadReportToFile ==
    /\ pc = "DownloadReportToFile"
    /\ IF report_job_id = Unbound
       THEN /\ exception' = "UnboundLocalError"
            /\ pc' = "raised"
            /\ UNCHANGED <<report, trace>>
       ELSE /\ report' \in DriverDumps(date_)
            /\ trace' = Append(trace, <<"DownloadReportToFile", date_>>)
            /\ pc' = "transform_report_data"
            /\ UNCHANGED exception
    /\ UNCHANGED <<historical, today, i, date_, report_job_id, tmp_files, report_file,
                   df_report, gcs, console, ad_unit, labels>>

\* main.py:50: the download itself fails and the exception leaves
\* get_report_data, data_processing and the driver
DownloadReportToFileFails ==
    /\ pc = "DownloadReportToFile"
    /\ report_job_id # Unbound
    /\ trace' = Append(trace, <<"DownloadReportToFile", date_>>)
    /\ exception' = "DownloadError"
    /\ pc' = "raised"
    /\ UNCHANGED <<historical, today, i, date_, report_job_id, tmp_files, report_file,
                   report, df_report, gcs, console, ad_unit, labels>>

\* main.py:128: df_report = transform_report_data(report_file)
transform_step ==
    /\ pc = "transform_report_data"
    /\ df_report' = transform_report_data(report)
    /\ trace' = Append(trace, <<"transform_report_data", date_>>)
    /\ IF df_report'.raised # ""
       THEN pc' = "raised" /\ exception' = df_report'.raised
       ELSE pc' = "send_to_gs" /\ UNCHANGED exception
    /\ UNCHANGED <<historical, today, i, date_, report_job_id, tmp_files, report_file,
                   report, gcs, console, ad_unit, labels>>

\* main.py:131-132: the upload succeeds
send_to_gs ==
    /\ pc = "send_to_gs"
    /\ gcs' = Append(gcs, Blob(df_report, name_file(date_)))
    /\ trace' = Append(trace, <<"send_to_gs", date_>>)
    /\ pc' = "print"
    /\ UNCHANGED <<historical, today, i, date_, report_job_id, exception, tmp_files,
                   report_file, report, df_report, console, ad_unit, labels>>

\* main.py:117-118: upload_from_file raises; nothing is written
send_to_gs_fails ==
    /\ pc = "send_to_gs"
    /\ trace' = Append(trace, <<"send_to_gs", date_>>)
    /\ exception' = "UploadError"
    /\ pc' = "raised"
    /\ UNCHANGED <<historical, today, i, date_, report_job_id, tmp_files, report_file,
                   report, df_report, gcs, console, ad_unit, labels>>

\* main.py:150 and 166: print(date_), then the end or the next iteration
print_date ==
    /\ pc = "print"
    /\ console' = Append(console, <<"date", date_>>)
    /\ IF historical
       THEN pc' = "for" /\ i' = i + 1
       ELSE pc' = "exit" /\ UNCHANGED i
    /\ UNCHANGED <<historical, today, date_, report_job_id, exception, tmp_files,
                   report_file, report, df_report, gcs, trace, ad_unit, labels>>

Next ==
    \/ main
    \/ for_loop
    \/ WaitForReport
    \/ WaitForReportFails
    \/ NamedTemporaryFile
    \/ DownloadReportToFile
    \/ DownloadReportToFileFails
    \/ transform_step
    \/ send_to_gs
    \/ send_to_gs_fails
    \/ print_date

Spec == Init /\ [][Next]_vars

----------------------------------------------------------------------------
(* transform_report_data on every dump of at most MaxRows rows             *)

InitTransform ==
    /\ Blank
    /\ pc = "transform_report_data"
    /\ historical = FALSE
    /\ today = NextDay(from_date)
    /\ report \in Dumps(from_date)
    /\ ad_unit = <<>>

NextTransform == transform_step

SpecTransform == InitTransform /\ [][NextTransform]_vars

----------------------------------------------------------------------------
(* the label extraction on every name of at most MaxNameLen characters     *)

InitExtract ==
    /\ Blank
    /\ pc = "extract"
    /\ historical = FALSE
    /\ today = NextDay(from_date)
    /\ report = <<>>
    /\ ad_unit \in ExtractNames

\* main.py:65-69 on one Dimension.AD_UNIT_NAME
extract_step ==
    /\ pc = "extract"
    /\ labels' = ExtractLabels(ad_unit)
    /\ pc' = "extracted"
    /\ UNCHANGED <<historical, today, i, date_, report_job_id, exception, tmp_files,
                   report_file, report, df_report, gcs, console, trace, ad_unit>>

NextExtract == extract_step

SpecExtract == InitExtract /\ [][NextExtract]_vars
----------------------------------------------------------------------------
(* Vocabulary of the properties: the filters, the device table and the     *)
(* segment shape as the specification words them                           *)

PlatformSet == {Str_20minutes_web, Str_20minutes_web_video_P2, Str_20minutes_mobile}

HasSuffix(v, suffix) ==
    /\ v # NaN
    /\ Len(v) >= Len(suffix)
    /\ \A k \in 1..Len(suffix) : v[Len(v) - Len(suffix) + k] = suffix[k]

PassesFilterA(x) == x.ad_unit_level_0 \in PlatformSet

PassesFilterB(x) ==
    \/ HasSuffix(x.sub_section, Str_Diapo)
    \/ HasSuffix(x.sub_section, Str_art)
    \/ x.section = Str_amp

DeviceTable(v) ==
    CASE v = Str_20minutes_web -> Str_Desktop
      [] v = Str_20minutes_web_video_P2 -> Str_Desktop
      [] v = Str_20minutes_mobile -> Str_Mobile_Web
      [] OTHER -> v

\* the labels and metrics of a row r of the dump
InputRow(r) ==
    LET l == IF r.AD_UNIT_NAME \in AdUnitNames THEN LabelsOf[r.AD_UNIT_NAME]
             ELSE ExtractLabels(r.AD_UNIT_NAME)
    IN  [date              |-> ParseDate(r.DATE),
         ad_unit_level_0   |-> l.ad_unit_level_0,
         section           |-> l.section,
         sub_section       |-> l.sub_section,
         key               |-> <<ParseDate(r.DATE), DeviceTable(l.ad_unit_level_0),
                                 l.section, l.sub_section>>,
         impressions       |-> r.IMPRESSIONS,
         revenue           |-> IF IsFloatText(r.REVENUE) THEN FloatOf(r.REVENUE) ELSE 0,
         total_ad_requests |-> r.AD_REQUESTS]

\* the rows of the dump the transformer was given
Input == [j \in 1..Len(report) |-> InputRow(report[j])]

OutputKey(g) == <<g.date, g.device_type, g.section, g.sub_section>>

\* sum of column col over the rows of in with index in S
RECURSIVE InputSum(_, _, _)
InputSum(in, S, col) ==
    IF S = {} THEN 0
    ELSE LET j == CHOOSE j \in S : TRUE IN in[j][col] + InputSum(in, S \ {j}, col)

\* sum of column col over the rows of the data frame df
RECURSIVE OutputSum(_, _)
OutputSum(df, col) ==
    IF df = <<>> THEN 0 ELSE Head(df)[col] + OutputSum(Tail(df), col)

MetricColumns == {"impressions", "revenue", "total_ad_requests"}

\* transform_report_data has returned a data frame
Returned == pc = "send_to_gs"

\* transform_report_data has run on the current dump
Transformed ==
    /\ pc \in {"send_to_gs", "raised"}
    /\ trace # <<>>
    /\ trace[Len(trace)][1] = "transform_report_data"

Out == df_report.rows


----------------------------------------------------------------------------
(* transform_report_data: C1 - C6                                          *)

\* C1 (as claimed): the impressions of the returned rows add up to the
\* impressions of the input rows that pass Filter A and Filter B
C1_SumOfPassingRows ==
    Returned =>
        LET in == Input
        IN  OutputSum(Out, "impressions") =
                InputSum(in, {j \in 1..Len(in) : PassesFilterA(in[j]) /\ PassesFilterB(in[j])},
                         "impressions")

\* C2: no two rows of the returned table have the same
\* (date, device_type, section, sub_section) key
C2_UniqueKeys ==
    Returned =>
        \A a, b \in 1..Len(Out) : a # b => OutputKey(Out[a]) # OutputKey(Out[b])

\* two rows of the dump were merged into one returned row
C2_Witness ==
    /\ Returned
    /\ Len(report) = 2
    /\ Len(Out) = 1
    /\ Out[1].impressions = report[1].IMPRESSIONS + report[2].IMPRESSIONS

\* C3: a row whose ad_unit_level_0 is outside the three platforms contributes
\* to no returned row: every metric of every returned row is the sum of that
\* metric over the input rows of its key that pass Filter A
C3_FilterAExcludes ==
    Returned =>
        LET in == Input
            out == Out
        IN  \A g \in 1..Len(out) :
                LET S == {j \in 1..Len(in) :
                              PassesFilterA(in[j]) /\ in[j].key = OutputKey(out[g])}
                IN  \A col \in MetricColumns : out[g][col] = InputSum(in, S, col)

\* a row of 20minutes_other with section amp was given together with a row
\* that is returned
C3_Witness ==
    /\ Returned
    /\ Len(Out) = 1
    /\ \E j \in 1..Len(report) :
          /\ ~PassesFilterA(Input[j])
          /\ Input[j].ad_unit_level_0 # NaN
          /\ Input[j].section = Str_amp

\* C4 (as claimed): every row that passes Filter A and whose section is amp
\* is counted in a returned row, whatever its sub_section, absent included
C4_AmpRowsKept ==
    Returned =>
        \A j \in 1..Len(report) :
            (PassesFilterA(Input[j]) /\ Input[j].section = Str_amp) =>
                \E g \in 1..Len(Out) :
                    /\ OutputKey(Out[g]) = Input[j].key
                    /\ Out[g].impressions >= Input[j].impressions

\* C5: device_type is ad_unit_level_0 mapped through the table, any other
\* value kept as it is, and every returned row is Desktop or Mobile Web
C5_DeviceMapping ==
    Returned =>
        /\ \A j \in 1..Len(report) :
              LET x == Normalize(report[j])
              IN  x.device_type = DeviceTable(x.ad_unit_level_0)
        /\ \A g \in 1..Len(Out) : Out[g].device_type \in {Str_Desktop, Str_Mobile_Web}

\* a 20minutes_web_video_P2 row was returned as Desktop while a row of an
\* unmapped platform was given
C5_Witness ==
    /\ Returned
    /\ Len(Out) = 1
    /\ Out[1].device_type = Str_Desktop
    /\ \E j, k \in 1..Len(report) :
          /\ Input[j].ad_unit_level_0 = Str_20minutes_web_video_P2
          /\ PassesFilterB(Input[j])
          /\ Input[k].ad_unit_level_0 \notin PlatformSet \cup {NaN}

----------------------------------------------------------------------------
(* The driver and the stages of a date's run: C7 - C9                      *)

\* the calls of stage f that were made, oldest first
CallsOf(f) == SelectSeq(trace, LAMBDA e : e[1] = f)

\* the handler of main.py:46-47 printed for date d
FailureLogged(d) ==
    \E k \in 1..Len(console) : console[k] = <<"Failed to generate report", d>>

\* data_processing is not running: it returned, or an exception left it
OutsideDataProcessing == pc \in {"for", "print", "exit", "raised"}

\* C7 (as claimed): no temporary file exists once data_processing for its
\* date has ended, by return or by exception
C7_TempFilesReleased == OutsideDataProcessing => tmp_files = {}

\* the dates of the historical range, in increasing order
HistoricalRange == [k \in 1..n |-> AddDays(from_date, k - 1)]

\* C8 (as claimed): once the historical driver has ended, every date of the
\* range from from_date through yesterday was fetched, transformed and
\* published exactly once, in increasing date order, and the k-th object
\* uploaded is named after the k-th date
C8_EveryDateProcessed ==
    (historical /\ pc \in {"exit", "raised"}) =>
        /\ CallsOf("DownloadReportToFile") =
              [k \in 1..n |-> <<"DownloadReportToFile", HistoricalRange[k]>>]
        /\ CallsOf("transform_report_data") =
              [k \in 1..n |-> <<"transform_report_data", HistoricalRange[k]>>]
        /\ [k \in 1..Len(gcs) |-> gcs[k].name] =
              [k \in 1..n |-> Str_blob_prefix \o name_file(HistoricalRange[k])]

\* the part of the historical run that the code does keep: the calls are made
\* in increasing date order, a date is fetched after the previous date was
\* published, an object is named after the date it was computed for, and a
\* run that ends without an exception covered the whole range
HistoricalRunInOrder ==
    historical =>
        /\ \A a, b \in 1..Len(trace) :
              a < b => ~DateLess(trace[b][2], trace[a][2])
        /\ \A k \in 1..Len(gcs) :
              gcs[k].name = Str_blob_prefix \o name_file(HistoricalRange[k])
        /\ \A k \in 1..Len(CallsOf("WaitForReport")) :
              /\ CallsOf("WaitForReport")[k][2] = HistoricalRange[k]
              /\ Len(gcs) >= k - 1
        /\ pc = "exit" => Len(gcs) = n

\* C9 (as claimed): after the handler printed the failure of the report job
\* of a date, the download is called for that date once the program has
\* left the with statement of main.py:49-50
C9_DownloadCalledAfterFailure ==
    \A k \in 1..Len(console) :
        (/\ console[k][1] = "Failed to generate report"
         /\ pc \notin {"NamedTemporaryFile", "DownloadReportToFile"}) =>
            \E c \in 1..Len(trace) : trace[c] = <<"DownloadReportToFile", console[k][2]>>

\* C9 (amended): after the handler printed the failure of the report job of a
\* date, the program does not stop at the handler: it goes on to create the
\* temporary file and to the download statement, where reading the job
\* reference that was never assigned raises UnboundLocalError; the download
\* is not called, and neither transform nor publish runs for that date
C9_FailureFallsThroughThenRaises ==
    \A k \in 1..Len(console) :
        console[k][1] = "Failed to generate report" =>
            /\ console[k][2] = date_
            /\ \/ pc = "NamedTemporaryFile"
               \/ pc = "DownloadReportToFile" /\ report_file \in tmp_files
               \/ /\ pc = "raised"
                  /\ exception = "UnboundLocalError"
                  /\ report_file \in tmp_files
            /\ report_job_id = Unbound
            /\ \A c \in 1..Len(trace) :
                  trace[c][1] \in {"DownloadReportToFile", "transform_report_data", "send_to_gs"}
                      => trace[c][2] # date_

\* the report job failed and the run of the date ended at the download statement
C9_Witness ==
    /\ FailureLogged(date_)
    /\ pc = "raised"
    /\ exception = "UnboundLocalError"

----------------------------------------------------------------------------
(* The label extraction: C10                                               *)

\* t is a label of k characters of [a-zA-Z_.0-9], one whitespace character
\* and a parenthesized run of digits, and nothing else
HasShape(t, k) ==
    /\ k >= 1
    /\ Len(t) >= k + 4
    /\ \A x \in 1..k : t[x] \in LabelChars
    /\ t[k + 1] \in Whitespace
    /\ t[k + 2] = "("
    /\ \A x \in (k + 3)..(Len(t) - 1) : t[x] \in Digits
    /\ t[Len(t)] = ")"

\* the part of s from a to b has the shape
ShapedPart(s, a, b) == \E k \in 1..(b - a + 1) : HasShape(SubSeq(s, a, b), k)

\* the label of the leftmost part of s that has the shape, NaN if no part has
\* it or s is missing
LeftmostLabel(s) ==
    IF s = NaN \/ ~\E a, b \in 1..Len(s) : ShapedPart(s, a, b) THEN NaN
    ELSE LET a == CHOOSE a \in 1..Len(s) :
                      /\ \E b \in 1..Len(s) : ShapedPart(s, a, b)
                      /\ \A c \in 1..(a - 1) : ~\E b \in 1..Len(s) : ShapedPart(s, c, b)
             b == CHOOSE b \in 1..Len(s) : ShapedPart(s, a, b)
             k == CHOOSE k \in 1..(b - a + 1) : HasShape(SubSeq(s, a, b), k)
         IN  SubSeq(s, a, a + k - 1)

\* the segments of the name under test
Segments == Split(ad_unit, Delimiter)

\* the segment each label column is extracted from
SegmentOf(column) ==
    CASE column = "ad_unit_level_0" -> Segments[1]
      [] column = "section" -> IF Len(Segments) >= 2 THEN Segments[2] ELSE NaN
      [] column = "sub_section" -> IF Len(Segments) >= 3 THEN Segments[3] ELSE NaN
      [] column = "ad_unit_name" -> Segments[Len(Segments)]

LabelColumns == {"ad_unit_level_0", "section", "sub_section", "ad_unit_name"}

\* C10 (as claimed): a label is extracted only from a segment that as a whole
\* has the shape, and then it is the label part of the segment
C10_WholeSegmentMatches ==
    pc = "extracted" =>
        \A column \in LabelColumns :
            labels[column] # NaN =>
                \E k \in 1..Len(SegmentOf(column)) :
                    /\ HasShape(SegmentOf(column), k)
                    /\ labels[column] = SubSeq(SegmentOf(column), 1, k)

\* C10 (amended): the label of segments 0, 1, 2 and the last is the label
\* part of the leftmost part of the segment that has the shape label, one
\* whitespace, parenthesized digits; it is absent only when no part of the
\* segment has the shape; a path of fewer than 3 segments has an absent
\* section and/or sub_section
C10_LeftmostPartMatches ==
    pc = "extracted" =>
        /\ \A column \in LabelColumns : labels[column] = LeftmostLabel(SegmentOf(column))
        /\ Len(Segments) < 2 => labels.section = NaN
        /\ Len(Segments) < 3 => labels.sub_section = NaN

\* a label was taken from a part of a segment whose label part starts with
\* a character outside the class, as in ab-cd (1)
C10_Witness ==
    /\ pc = "extracted"
    /\ Len(Segments) = 1
    /\ Len(ad_unit) >= 2
    /\ ad_unit[1] = "-"
    /\ labels.ad_unit_level_0 = SubSeq(ad_unit, 2, 2)
    /\ ~\E k \in 1..Len(ad_unit) : HasShape(ad_unit, k)

====
